---- MODULE Spec2Model ----
(***************************************************************************)
(* Code publishing in the universal engine: CodeMemory (layout, copy,      *)
(* write -> execute transition) and UniversalArtifact: from_build,         *)
(* register_frame_info, serialize and deserialize.                         *)
(*                                                                         *)
(* Addresses are integers.  A mapping is [ptr, len]; its protection is a   *)
(* sequence with one set of permission flags per page.  The contents of    *)
(* the mapping are known by the copies made into it: which input was       *)
(* copied to which offset, in program order.                               *)
(***************************************************************************)
EXTENDS Integers, Sequences, FiniteSets, TLC

VARIABLES
    functions,                    \* allocate's `functions` argument
    executable_sections,          \* allocate's `executable_sections` argument
    data_sections,                \* allocate's `data_sections` argument
    mmap,                         \* CodeMemory.mmap : [ptr, len]
    prot,                         \* protection of the pages of mmap
    start_of_nonexecutable_pages, \* CodeMemory.start_of_nonexecutable_pages
    registry,                     \* the UnwindRegistry handed to allocate
    function_result,              \* views returned by the last allocate
    executable_section_result,
    data_section_result,
    total_len,                    \* the local total_len of the last allocate
    memory,                       \* the copies made into mmap, in program order
    republished,                  \* the last call was a publish that followed
                                  \* a publish that returned
    ret,                          \* how the last call ended
    lastOp,                       \* the last CodeMemory operation that ran
    relocations,                  \* the build's relocation records
    debug,                        \* the build's debug descriptor (eh_frame)
    module_signatures,            \* module_info.signatures
    pc,                           \* the step from_build is about to run
    trace,                        \* the steps from_build has completed
    reloc_writes,                 \* the writes link_module made
    signature_table,              \* the engine's shared signature table
    signatures,                   \* from_build's local `signatures`
    eh_frame,                     \* from_build's local `eh_frame`
    result,                       \* how from_build ended
    artifact,                     \* the UniversalArtifact handed to the caller
    frame_info_registration,      \* UniversalArtifact.frame_info_registration
    frame_lock,                   \* the thread that holds its Mutex, or 0
    tpc,                          \* where each thread is in register_frame_info
    calls,                        \* calls of register_frame_info a thread ended
    seen,                         \* the slot as a thread's last call left it
    computations,                 \* calls of the underlying register_frame_info
    global_frame_info,            \* the registrations it has made
    serialized,                   \* the bytes serialize returned
    original,                     \* what the serialized artifact exposed
    phase,                        \* build, serialized, deserialize
    engine_lock,                  \* the thread that holds the engine, or 0
    engine_poisoned,              \* a thread panicked while it held the engine
    dpc,                          \* where each thread is in deserialize
    engine_log                    \* the steps builds made on the engine

cmVars == <<mmap, prot, start_of_nonexecutable_pages, registry,
            function_result, executable_section_result, data_section_result,
            total_len, memory, republished, ret, lastOp>>
inputVars == <<functions, executable_sections, data_sections>>
buildInputVars == <<relocations, debug, module_signatures>>
buildVars == <<pc, trace, reloc_writes, signature_table, signatures, eh_frame,
               result, artifact>>
threadVars == <<frame_lock, tpc, calls, seen, computations, global_frame_info>>
frameVars == <<frame_info_registration, threadVars>>
serialVars == <<serialized, original, phase>>
engineVars == <<engine_lock, engine_poisoned, dpc, engine_log>>
vars == <<inputVars, cmVars, buildInputVars, buildVars, frameVars, serialVars,
          engineVars>>

(***************************************************************************)
(* Program constants.                                                      *)
(***************************************************************************)
ARCH_FUNCTION_ALIGNMENT == 16
DATA_SECTION_ALIGNMENT == 64
\* region::page::size(): the host page size
PageSize == 4096
\* Mmap::new() holds the non-null dangling pointer of an empty Vec<u8>
DanglingPtr == 1

(***************************************************************************)
(* Bounds of the model.                                                    *)
(***************************************************************************)
MaxFuncs == 2
MaxExec == 1
MaxData == 1
MaxSigs == 1
\* threads that call register_frame_info, and calls each of them makes
MaxThreads == 2
MaxCalls == 2
Threads == 1..MaxThreads

\* byte length of a WindowsX64 unwind table
InfoLen == 6
\* the function bodies a build may hold: empty, short, filling a page to
\* within its last slot; without unwind info, with the inline variant, with
\* another variant
FunctionBody ==
    {[body_len |-> 0, unwind_info |-> "None"],
     [body_len |-> 10, unwind_info |-> "None"],
     [body_len |-> 10, unwind_info |-> "WindowsX64"],
     [body_len |-> 10, unwind_info |-> "SystemV"],
     [body_len |-> 4090, unwind_info |-> "None"],
     [body_len |-> 4090, unwind_info |-> "WindowsX64"]}
ExecLens == {0, 5}
DataLens == {0, 100}
\* addresses the OS may hand out for a non-empty mapping (page aligned)
Bases == {16 * PageSize}

SeqsUpTo(S, n) == UNION {[1..k -> S] : k \in 0..n}

ReadWrite == {"R", "W"}
ReadExecute == {"R", "X"}

(***************************************************************************)
(* Pure helpers of code_memory.rs.                                         *)
(***************************************************************************)
\* (size + (multiple - 1)) & !(multiple - 1): the low bits of the sum are
\* cleared, multiple being a power of two
round_up(size, multiple) ==
    LET x == size + (multiple - 1) IN x - (x % multiple)

\* byte length of the unwind table of a function (info.len())
info_len(func) == InfoLen

\* a size that leaves out the padding in front of the unwind table
function_allocation_size_NoPadding(func) ==
    IF func.unwind_info = "WindowsX64"
    THEN func.body_len + info_len(func)
    ELSE func.body_len

\* a size that makes room for the table of every kind of unwind information
function_allocation_size_AnyUnwind(func) ==
    IF func.unwind_info # "None"
    THEN LET x == func.body_len + 3 IN (x - (x % 4)) + info_len(func)
    ELSE func.body_len

\* match &func.unwind_info: ((func.body.len() + 3) & !3) + info.len() for
\* the WindowsX64 variant, func.body.len() for every other
function_allocation_size(func) ==
    IF func.unwind_info = "WindowsX64"
    THEN LET x == func.body_len + 3 IN (x - (x % 4)) + info_len(func)
    ELSE func.body_len

\* functions.iter().fold(0, |acc, func| round_up(acc + size(func), 16))
RECURSIVE FoldFunctions(_, _)
FoldFunctions(fs, acc) ==
    IF fs = <<>> THEN acc
    ELSE FoldFunctions(Tail(fs),
             round_up(acc + function_allocation_size(Head(fs)),
                      ARCH_FUNCTION_ALIGNMENT))

\* a fold that adds the section lengths without rounding them
RECURSIVE FoldSections_Unrounded(_, _, _)
FoldSections_Unrounded(ss, acc, align) ==
    IF ss = <<>> THEN acc
    ELSE FoldSections_Unrounded(Tail(ss), acc + Head(ss), align)

\* sections.iter().fold(0, |acc, s| round_up(acc + s.bytes.len(), align))
RECURSIVE FoldSections(_, _, _)
FoldSections(ss, acc, align) ==
    IF ss = <<>> THEN acc
    ELSE FoldSections(Tail(ss), round_up(acc + Head(ss), align), align)

compute_total_len(fs, es, ds) ==
    round_up(FoldFunctions(fs, 0) + FoldSections(es, 0, ARCH_FUNCTION_ALIGNMENT),
             PageSize)
    + FoldSections(ds, 0, DATA_SECTION_ALIGNMENT)

(***************************************************************************)
(* Mmap (wasmer_vm) and region::protect.                                   *)
(***************************************************************************)
MmapNew == [ptr |-> DanglingPtr, len |-> 0]

\* Mmap::with_at_least(size) when the OS grants the mapping at `ptr`
with_at_least(size, ptr) ==
    IF round_up(size, PageSize) = 0 THEN MmapNew
    ELSE [ptr |-> ptr, len |-> round_up(size, PageSize)]

FreshPages(m) == [i \in 1..(m.len \div PageSize) |-> ReadWrite]

\* region::protect refuses an empty range whatever the OS would say
protect_accepts(size) == size > 0

\* a protect that flips a page that is already read+execute back to
\* read-write
region_protect_Toggle(p, size) ==
    [i \in 1..Len(p) |->
        IF (i - 1) * PageSize < size
        THEN (IF p[i] = ReadExecute THEN ReadWrite ELSE ReadExecute)
        ELSE p[i]]

\* a protect that adds the execute permission and keeps the write permission
region_protect_KeepWrite(p, size) ==
    [i \in 1..Len(p) |->
        IF (i - 1) * PageSize < size THEN p[i] \cup {"X"} ELSE p[i]]

\* region::protect(mmap.as_mut_ptr(), size, READ_EXECUTE): the pages that
\* hold a byte of [0, size) change, the others keep their protection
region_protect(p, size) ==
    [i \in 1..Len(p) |->
        IF (i - 1) * PageSize < size THEN ReadExecute ELSE p[i]]

(***************************************************************************)
(* The walk of allocate over the mapping (step 3).                         *)
(***************************************************************************)
\* a slot sized for the body alone, the unwind table forgotten
FunctionSlot_BodyOnly(func) == round_up(func.body_len, ARCH_FUNCTION_ALIGNMENT)

\* a slot that is not rounded up to the function alignment
FunctionSlot_Unrounded(func) == function_allocation_size(func)

FunctionSlot(func) ==
    round_up(function_allocation_size(func), ARCH_FUNCTION_ALIGNMENT)

\* offset of function i: `bytes` before the i-th iteration of the loop
RECURSIVE FunctionOffset(_, _)
FunctionOffset(fs, i) ==
    IF i = 1 THEN 0
    ELSE FunctionOffset(fs, i - 1) + FunctionSlot(fs[i - 1])

FunctionBytes(fs) == FunctionOffset(fs, Len(fs) + 1)

\* a walk that advances by the length of a section, not by its rounded
\* length
RECURSIVE SectionOffset_Unrounded(_, _, _, _)
SectionOffset_Unrounded(ss, i, start, align) ==
    IF i = 1 THEN start
    ELSE SectionOffset_Unrounded(ss, i - 1, start, align) + ss[i - 1]

\* offset of section i of a section loop that starts at `start`: the sum of
\* the rounded lengths split off before it (lines 104-106 and 124-126)
RECURSIVE SectionOffset(_, _, _, _)
SectionOffset(ss, i, start, align) ==
    IF i = 1 THEN start
    ELSE SectionOffset(ss, i - 1, start, align) + round_up(ss[i - 1], align)

\* `bytes` at line 111
ExecutableBytes(fs, es) ==
    SectionOffset(es, Len(es) + 1, FunctionBytes(fs), ARCH_FUNCTION_ALIGNMENT)

\* a padding that is a whole page when bytes is already page aligned
DataStart_FullPage(fs, es) ==
    LET bytes == ExecutableBytes(fs, es)
    IN  bytes + (PageSize - (bytes % PageSize))

\* the data sections follow the executable sections without padding
DataStart_NoPadding(fs, es) == ExecutableBytes(fs, es)

\* offset of the first data section: bytes + padding (lines 116-117)
DataStart(fs, es) ==
    LET bytes == ExecutableBytes(fs, es)
        padding == round_up(bytes, PageSize) - bytes
    IN  bytes + padding

\* the body view copy_function returns: buf.split_at_mut(func_len).0
FunctionViews(m, fs) ==
    [i \in 1..Len(fs) |->
        [ptr |-> m.ptr + FunctionOffset(fs, i), len |-> fs[i].body_len]]

\* the slot `s` pushed for an executable section
ExecutableViews(m, fs, es) ==
    [i \in 1..Len(es) |->
        [ptr |-> m.ptr + SectionOffset(es, i, FunctionBytes(fs),
                                       ARCH_FUNCTION_ALIGNMENT),
         len |-> round_up(es[i], ARCH_FUNCTION_ALIGNMENT)]]

DataViews(m, fs, es, ds) ==
    [i \in 1..Len(ds) |->
        [ptr |-> m.ptr + SectionOffset(ds, i, DataStart(fs, es),
                                       DATA_SECTION_ALIGNMENT),
         len |-> round_up(ds[i], DATA_SECTION_ALIGNMENT)]]

\* (func_len + 3) & !3: offset of the unwind table in the slot of a function
unwind_start(func) == LET x == func.body_len + 3 IN x - (x % 4)

\* a copy_function that splits the unwind slice off buf, not off remainder:
\* the table lands behind the padding counted from the start of the slot
copy_function_TableIntoBuf(func, i, off) ==
    <<[off |-> off, len |-> func.body_len,
       src |-> "function", index |-> i, part |-> "body"]>>
    \o IF func.unwind_info = "WindowsX64"
       THEN <<[off |-> off + (unwind_start(func) - func.body_len),
               len |-> info_len(func),
               src |-> "function", index |-> i, part |-> "unwind"]>>
       ELSE <<>>

\* the copy_from_slice calls of copy_function for function i, whose slot
\* starts at offset off: the body (line 186), then the unwind table of the
\* WindowsX64 variant behind its padding (line 197)
copy_function(func, i, off) ==
    <<[off |-> off, len |-> func.body_len,
       src |-> "function", index |-> i, part |-> "body"]>>
    \o IF func.unwind_info = "WindowsX64"
       THEN <<[off |-> off + unwind_start(func), len |-> info_len(func),
               src |-> "function", index |-> i, part |-> "unwind"]>>
       ELSE <<>>

\* the copies of the first n iterations of the loop of lines 87-99
RECURSIVE FunctionCopies(_, _)
FunctionCopies(fs, n) ==
    IF n = 0 THEN <<>>
    ELSE FunctionCopies(fs, n - 1)
         \o copy_function(fs[n], n, FunctionOffset(fs, n))

\* s[..section.len()].copy_from_slice(section) for the first n sections of
\* a section loop (lines 107 and 127)
SectionCopies(ss, n, start, align, kind) ==
    [i \in 1..n |->
        [off |-> SectionOffset(ss, i, start, align), len |-> ss[i],
         src |-> kind, index |-> i, part |-> "body"]]

\* every copy of an allocate that runs to its end
AllocateCopies(fs, es, ds) ==
    FunctionCopies(fs, Len(fs))
    \o SectionCopies(es, Len(es), FunctionBytes(fs), ARCH_FUNCTION_ALIGNMENT,
                     "executable")
    \o SectionCopies(ds, Len(ds), DataStart(fs, es), DATA_SECTION_ALIGNMENT,
                     "data")

\* a registration that passes the size of the allocation as the length
Registered_AllocationSize(m, fs, n) ==
    LET idx == SelectSeq([i \in 1..n |-> i],
                         LAMBDA i : fs[i].unwind_info # "None")
    IN  [j \in 1..Len(idx) |->
            [address |-> m.ptr + FunctionOffset(fs, idx[j]),
             length |-> function_allocation_size(fs[idx[j]])]]

\* registry.register(vmfunc.as_ptr(), 0, func_len, info) for the functions
\* 1..n that carry unwind info, in order
RECURSIVE Registered(_, _, _)
Registered(m, fs, n) ==
    IF n = 0 THEN <<>>
    ELSE LET before == Registered(m, fs, n - 1)
         IN  IF fs[n].unwind_info = "None" THEN before
             ELSE Append(before,
                      [address |-> m.ptr + FunctionOffset(fs, n),
                       length |-> fs[n].body_len])

\* The alignment assertions of lines 97, 102, 122 and 181, in program order:
\* the first that fails, or "none".
FailedAssertion(m, fs, es, ds) ==
    IF fs # <<>> /\ \E i \in 1..Len(fs) :
            (m.ptr + FunctionOffset(fs, i)) % ARCH_FUNCTION_ALIGNMENT # 0
    THEN "function"
    ELSE IF es # <<>> /\ \E i \in 1..Len(es) :
            (m.ptr + SectionOffset(es, i, FunctionBytes(fs),
                                   ARCH_FUNCTION_ALIGNMENT))
                % ARCH_FUNCTION_ALIGNMENT # 0
    THEN "executable"
    ELSE IF ds # <<>> /\ \E i \in 1..Len(ds) :
            (m.ptr + SectionOffset(ds, i, DataStart(fs, es),
                                   DATA_SECTION_ALIGNMENT))
                % DATA_SECTION_ALIGNMENT # 0
    THEN "data"
    ELSE "none"

\* index of the first segment whose start address is not a multiple of
\* align, offsets[i] being the offset of segment i
FirstMisaligned(m, offsets, align) ==
    CHOOSE j \in 1..Len(offsets) :
        /\ (m.ptr + offsets[j]) % align # 0
        /\ \A i \in 1..(j - 1) : (m.ptr + offsets[i]) % align = 0

FunctionOffsets(fs) == [i \in 1..Len(fs) |-> FunctionOffset(fs, i)]
SectionOffsets(ss, start, align) ==
    [i \in 1..Len(ss) |-> SectionOffset(ss, i, start, align)]

\* number of functions copy_function ran to its end for, and the copies made,
\* when an alignment assertion of allocate stops it
FunctionsBeforeAssertion(m, fs, es, ds) ==
    IF FailedAssertion(m, fs, es, ds) = "function"
    THEN FirstMisaligned(m, FunctionOffsets(fs), ARCH_FUNCTION_ALIGNMENT) - 1
    ELSE Len(fs)

CopiesBeforeAssertion(m, fs, es, ds) ==
    LET failed == FailedAssertion(m, fs, es, ds)
        estart == FunctionBytes(fs)
        dstart == DataStart(fs, es)
    IN  FunctionCopies(fs, FunctionsBeforeAssertion(m, fs, es, ds))
        \o (IF failed = "function" THEN <<>>
            ELSE IF failed = "executable"
            THEN SectionCopies(es,
                     FirstMisaligned(m,
                         SectionOffsets(es, estart, ARCH_FUNCTION_ALIGNMENT),
                         ARCH_FUNCTION_ALIGNMENT) - 1,
                     estart, ARCH_FUNCTION_ALIGNMENT, "executable")
            ELSE SectionCopies(es, Len(es), estart, ARCH_FUNCTION_ALIGNMENT,
                               "executable")
                 \o SectionCopies(ds,
                        FirstMisaligned(m,
                            SectionOffsets(ds, dstart, DATA_SECTION_ALIGNMENT),
                            DATA_SECTION_ALIGNMENT) - 1,
                        dstart, DATA_SECTION_ALIGNMENT, "data"))

(***************************************************************************)
(* CodeMemory::new                                                         *)
(***************************************************************************)
CodeMemoryNew ==
    /\ mmap = MmapNew
    /\ prot = <<>>
    /\ start_of_nonexecutable_pages = 0

InitInputs ==
    /\ functions \in SeqsUpTo(FunctionBody, MaxFuncs)
    /\ executable_sections \in SeqsUpTo(ExecLens, MaxExec)
    /\ data_sections \in SeqsUpTo(DataLens, MaxData)

InitCodeMemory ==
    /\ CodeMemoryNew
    /\ registry = <<>>
    /\ function_result = <<>>
    /\ executable_section_result = <<>>
    /\ data_section_result = <<>>
    /\ total_len = 0
    /\ memory = <<>>
    /\ republished = FALSE
    /\ ret = "none"
    /\ lastOp = "new"

(***************************************************************************)
(* CodeMemory::allocate.  The caller hands in a fresh UnwindRegistry.      *)
(***************************************************************************)
NoViews ==
    /\ function_result' = <<>>
    /\ executable_section_result' = <<>>
    /\ data_section_result' = <<>>

\* the mapping request is granted at ptr, every assertion passes and every
\* registration succeeds: Ok((function_result, executable_section_result,
\* data_section_result))
AllocateAt(ptr) ==
    LET tl == compute_total_len(functions, executable_sections, data_sections)
        m == with_at_least(tl, ptr)
    IN  /\ FailedAssertion(m, functions, executable_sections, data_sections)
               = "none"
        /\ total_len' = tl
        /\ mmap' = m
        /\ prot' = FreshPages(m)
        /\ memory' = AllocateCopies(functions, executable_sections,
                                    data_sections)
        /\ republished' = FALSE
        /\ registry' = Registered(m, functions, Len(functions))
        /\ start_of_nonexecutable_pages' =
               ExecutableBytes(functions, executable_sections)
        /\ function_result' = FunctionViews(m, functions)
        /\ executable_section_result' =
               ExecutableViews(m, functions, executable_sections)
        /\ data_section_result' =
               DataViews(m, functions, executable_sections, data_sections)
        /\ ret' = "Ok"

\* an allocate that drops the old mapping before it asks for the new one
AllocateMmapErr_DropsMapping ==
    LET tl == compute_total_len(functions, executable_sections, data_sections)
    IN  /\ round_up(tl, PageSize) > 0
        /\ total_len' = tl
        /\ registry' = <<>>
        /\ NoViews
        /\ ret' = "Err"
        /\ republished' = FALSE
        /\ mmap' = MmapNew
        /\ prot' = <<>>
        /\ memory' = <<>>
        /\ start_of_nonexecutable_pages' = 0

\* Mmap::with_at_least(total_len)? returns Err: self.mmap is not assigned
AllocateMmapErr ==
    LET tl == compute_total_len(functions, executable_sections, data_sections)
    IN  /\ round_up(tl, PageSize) > 0
        /\ total_len' = tl
        /\ registry' = <<>>
        /\ NoViews
        /\ ret' = "Err"
        /\ republished' = FALSE
        /\ UNCHANGED <<mmap, prot, memory, start_of_nonexecutable_pages>>

\* registry.register(..) fails for function k: expect() panics inside
\* copy_function, after line 78 and before line 111
AllocateRegisterPanicAt(ptr, k) ==
    LET tl == compute_total_len(functions, executable_sections, data_sections)
        m == with_at_least(tl, ptr)
    IN  /\ functions[k].unwind_info # "None"
        /\ FailedAssertion(m, functions, executable_sections, data_sections)
               # "function"
        /\ total_len' = tl
        /\ mmap' = m
        /\ prot' = FreshPages(m)
        /\ memory' = FunctionCopies(functions, k)
        /\ republished' = FALSE
        /\ registry' = Registered(m, functions, k - 1)
        /\ NoViews
        /\ ret' = "panic_expect"
        /\ UNCHANGED start_of_nonexecutable_pages

\* one of the alignment assertions fails
AllocateAssertPanicAt(ptr) ==
    LET tl == compute_total_len(functions, executable_sections, data_sections)
        m == with_at_least(tl, ptr)
        failed == FailedAssertion(m, functions, executable_sections,
                                  data_sections)
    IN  /\ failed # "none"
        /\ total_len' = tl
        /\ mmap' = m
        /\ prot' = FreshPages(m)
        /\ memory' = CopiesBeforeAssertion(m, functions, executable_sections,
                                           data_sections)
        /\ republished' = FALSE
        /\ registry' = Registered(m, functions,
               FunctionsBeforeAssertion(m, functions, executable_sections,
                                        data_sections))
        /\ IF failed = "data"
           THEN start_of_nonexecutable_pages' =
                    ExecutableBytes(functions, executable_sections)
           ELSE UNCHANGED start_of_nonexecutable_pages
        /\ NoViews
        /\ ret' = "panic_assert"

(***************************************************************************)
(* CodeMemory::publish                                                     *)
(***************************************************************************)
\* an early return that only looks at the mapping
publish_returns_early_EmptyOnly(m, boundary) == m.len = 0

\* the early return of lines 146-148
publish_returns_early(m, boundary) == m.len = 0 \/ boundary = 0

\* a publish that protects the whole mapping
publish_length_WholeMapping(m, boundary) == m.len

\* the length handed to region::protect (line 153)
publish_length(m, boundary) == boundary

\* publish returns: either early, or after region::protect succeeded
PublishReturn ==
    /\ IF publish_returns_early(mmap, start_of_nonexecutable_pages)
       THEN prot' = prot
       ELSE /\ mmap.len >= start_of_nonexecutable_pages
            /\ protect_accepts(publish_length(mmap,
                                   start_of_nonexecutable_pages))
            /\ prot' = region_protect(prot,
                           publish_length(mmap, start_of_nonexecutable_pages))
    /\ ret' = "Ok"
    /\ republished' = (lastOp = "publish" /\ ret = "Ok")
    /\ UNCHANGED <<mmap, memory, start_of_nonexecutable_pages>>

\* the assertion of line 149 fails, or region::protect returns Err and
\* expect() panics; the protection is as it was
PublishPanic ==
    /\ ~publish_returns_early(mmap, start_of_nonexecutable_pages)
    /\ ret' = IF mmap.len < start_of_nonexecutable_pages
              THEN "panic_assert" ELSE "panic_expect"
    /\ republished' = (lastOp = "publish" /\ ret = "Ok")
    /\ UNCHANGED <<mmap, prot, memory, start_of_nonexecutable_pages>>

(***************************************************************************)
(* A caller of CodeMemory: allocate and publish in any order.  A panic     *)
(* unwinds the caller, which makes no further call.                        *)
(***************************************************************************)
Panicked == ret \in {"panic_expect", "panic_assert"}

Allocate ==
    /\ ~Panicked
    /\ \E ptr \in Bases : AllocateAt(ptr)
    /\ lastOp' = "allocate"
    /\ UNCHANGED <<inputVars, frameVars, serialVars,
                   buildInputVars, engineVars, buildVars>>

AllocateErr ==
    /\ ~Panicked
    /\ AllocateMmapErr
    /\ lastOp' = "allocate"
    /\ UNCHANGED <<inputVars, frameVars, serialVars,
                   buildInputVars, engineVars, buildVars>>

AllocateRegisterPanic ==
    /\ ~Panicked
    /\ \E ptr \in Bases : \E k \in 1..Len(functions) :
           AllocateRegisterPanicAt(ptr, k)
    /\ lastOp' = "allocate"
    /\ UNCHANGED <<inputVars, frameVars, serialVars,
                   buildInputVars, engineVars, buildVars>>

AllocateAssertPanic ==
    /\ ~Panicked
    /\ \E ptr \in Bases : AllocateAssertPanicAt(ptr)
    /\ lastOp' = "allocate"
    /\ UNCHANGED <<inputVars, frameVars, serialVars,
                   buildInputVars, engineVars, buildVars>>

Publish ==
    /\ ~Panicked
    /\ PublishReturn
    /\ lastOp' = "publish"
    /\ UNCHANGED <<inputVars, frameVars, serialVars, registry, function_result,
                   executable_section_result, data_section_result, total_len>>
    /\ UNCHANGED <<buildInputVars, engineVars, buildVars>>

PublishFail ==
    /\ ~Panicked
    /\ PublishPanic
    /\ lastOp' = "publish"
    /\ UNCHANGED <<inputVars, frameVars, serialVars, registry, function_result,
                   executable_section_result, data_section_result, total_len>>
    /\ UNCHANGED <<buildInputVars, engineVars, buildVars>>

NoArtifact == [present |-> FALSE]

\* Mutex::new(None): the slot of an artifact nothing is registered for
NoRegistration == [some |-> FALSE, key |-> 0]

NoSummary == [count |-> 0, lengths |-> <<>>, unwind_entries |-> 0]

\* no thread has called register_frame_info, nothing has been serialized,
\* no thread has called deserialize
InitUnused ==
    /\ frame_info_registration = NoRegistration
    /\ frame_lock = 0
    /\ tpc = [t \in Threads |-> "idle"]
    /\ calls = [t \in Threads |-> 0]
    /\ seen = [t \in Threads |-> NoRegistration]
    /\ computations = 0
    /\ global_frame_info = <<>>
    /\ serialized = <<>>
    /\ original = NoSummary
    /\ phase = "build"
    /\ engine_lock = 0
    /\ engine_poisoned = FALSE
    /\ dpc = [t \in Threads |-> "idle"]
    /\ engine_log = <<>>

InitNoBuild ==
    /\ relocations = <<>>
    /\ debug = 0
    /\ module_signatures = <<>>
    /\ pc = "idle"
    /\ trace = <<>>
    /\ reloc_writes = <<>>
    /\ signature_table = {}
    /\ signatures = <<>>
    /\ eh_frame = "None"
    /\ result = "none"
    /\ artifact = NoArtifact
    /\ InitUnused

Init == InitInputs /\ InitCodeMemory /\ InitNoBuild

Next ==
    \/ Allocate
    \/ AllocateErr
    \/ AllocateRegisterPanic
    \/ AllocateAssertPanic
    \/ Publish
    \/ PublishFail

Spec == Init /\ [][Next]_vars

(***************************************************************************)
(* The same caller on builds of up to MaxLayoutFuncs functions with bodies *)
(* of several short lengths, so that slots of one, two and three alignment *)
(* units follow one another.                                               *)
(***************************************************************************)
MaxLayoutFuncs == 3

LayoutBody ==
    {[body_len |-> 0, unwind_info |-> "None"],
     [body_len |-> 10, unwind_info |-> "None"],
     [body_len |-> 17, unwind_info |-> "None"],
     [body_len |-> 40, unwind_info |-> "None"],
     [body_len |-> 10, unwind_info |-> "WindowsX64"]}

InitLayout ==
    /\ functions \in SeqsUpTo(LayoutBody, MaxLayoutFuncs)
    /\ executable_sections \in SeqsUpTo({5}, MaxExec)
    /\ data_sections \in SeqsUpTo({100}, MaxData)
    /\ InitCodeMemory
    /\ InitNoBuild

SpecLayout == InitLayout /\ [][Next]_vars


(***************************************************************************)
(* The serialized module: the function bodies and custom sections of a     *)
(* build as a sequence of numbers, each list behind its length.  A body or *)
(* section is known by its length, unwind information by its variant.      *)
(***************************************************************************)
unwind_tag(u) ==
    CASE u = "None" -> 0
      [] u = "WindowsX64" -> 1
      [] OTHER -> 2

tag_unwind(n) ==
    CASE n = 0 -> "None"
      [] n = 1 -> "WindowsX64"
      [] OTHER -> "SystemV"

RECURSIVE EncodeFunctions(_)
EncodeFunctions(fs) ==
    IF fs = <<>> THEN <<>>
    ELSE <<Head(fs).body_len, unwind_tag(Head(fs).unwind_info)>>
         \o EncodeFunctions(Tail(fs))

\* a serialization that leaves the unwind information out
Encode_WithoutUnwindInfo(fs, es, ds) ==
    <<Len(fs)>>
    \o EncodeFunctions([i \in 1..Len(fs) |->
                           [body_len |-> fs[i].body_len,
                            unwind_info |-> "None"]])
    \o <<Len(es)>> \o es \o <<Len(ds)>> \o ds

\* SerializableModule::serialize: serializer.serialize_value(self)
Encode(fs, es, ds) ==
    <<Len(fs)>> \o EncodeFunctions(fs)
    \o <<Len(es)>> \o es \o <<Len(ds)>> \o ds

\* the bytes are the serialization of some module
Decodable(b) ==
    /\ Len(b) >= 1
    /\ LET nf == b[1]
       IN  /\ Len(b) >= 2 * nf + 2
           /\ \A i \in 1..nf : b[2 * i + 1] \in 0..2
           /\ LET ne == b[2 * nf + 2]
              IN  /\ Len(b) >= 2 * nf + ne + 3
                  /\ Len(b) = 2 * nf + ne + 3 + b[2 * nf + ne + 3]

\* the module read back from the bytes
Decode(b) ==
    LET nf == b[1]
        ne == b[2 * nf + 2]
        nd == b[2 * nf + ne + 3]
    IN  [functions |->
            [i \in 1..nf |-> [body_len |-> b[2 * i],
                              unwind_info |-> tag_unwind(b[2 * i + 1])]],
         executable_sections |-> [i \in 1..ne |-> b[2 * nf + 2 + i]],
         data_sections |-> [i \in 1..nd |-> b[2 * nf + ne + 3 + i]]]

(***************************************************************************)
(* UniversalArtifact::from_build.  engine_inner.allocate creates a fresh   *)
(* CodeMemory and allocates into it; publish_compiled_code publishes it.   *)
(***************************************************************************)
SigTypes == {"i32_to_i32"}
\* offsets of a relocation in its owner: the first byte, and one behind the
\* end of a short body or section
RelocOffsets == {0, 12}
\* bytes a relocation writes
RelocWidth == 4

\* a from_build that makes the code executable before it links it
NextStep_PublishBeforeLink(step) ==
    CASE step = "allocate" -> "publish_compiled_code"
      [] step = "publish_compiled_code" -> "link_module"
      [] step = "link_module" -> "signatures"
      [] step = "signatures" -> "eh_frame"
      [] step = "eh_frame" -> "publish_eh_frame"
      [] step = "publish_eh_frame" -> "try_from"
      [] OTHER -> "done"

\* the order of the statements of from_build
NextStep(step) ==
    CASE step = "allocate" -> "link_module"
      [] step = "link_module" -> "signatures"
      [] step = "signatures" -> "eh_frame"
      [] step = "eh_frame" -> "publish_compiled_code"
      [] step = "publish_compiled_code" -> "publish_eh_frame"
      [] step = "publish_eh_frame" -> "try_from"
      [] OTHER -> "done"

\* the statements of from_build, in program order
FromBuildSteps ==
    <<"allocate", "link_module", "signatures", "eh_frame",
      "publish_compiled_code", "publish_eh_frame", "try_from">>

\* the custom section pointers engine_inner.allocate returns
CustomSections == executable_section_result \o data_section_result
CustomSectionLens == executable_sections \o data_sections

\* one relocation at offset `off` of every non-empty function body and
\* custom section
AllRelocations(fs, es, ds, off) ==
    LET secs == es \o ds
        F == {i \in 1..Len(fs) : fs[i].body_len > 0}
        S == {i \in 1..Len(secs) : secs[i] > 0}
        fr == [i \in 1..Len(fs) |->
                 [owner |-> "function", index |-> i, offset |-> off]]
        sr == [i \in 1..Len(secs) |->
                 [owner |-> "section", index |-> i, offset |-> off]]
    IN  SelectSeq(fr, LAMBDA r : r.index \in F)
        \o SelectSeq(sr, LAMBDA r : r.index \in S)

InitBuild ==
    /\ relocations \in
          {AllRelocations(functions, executable_sections, data_sections, off) :
              off \in RelocOffsets}
    /\ debug \in {0, Len(executable_sections) + Len(data_sections)}
    /\ module_signatures \in SeqsUpTo(SigTypes, MaxSigs)
    /\ pc = "allocate"
    /\ trace = <<>>
    /\ reloc_writes = <<>>
    /\ signature_table = {}
    /\ signatures = <<>>
    /\ eh_frame = "None"
    /\ result = "none"
    /\ artifact = NoArtifact
    /\ InitUnused

\* the statement `step` completed: go on with the next one
Advance(step) ==
    /\ pc' = NextStep(step)
    /\ trace' = Append(trace, step)
    /\ UNCHANGED <<result, artifact>>

\* from_build ends without a value: `?` returns Err, or a panic unwinds
Fail(how) ==
    /\ pc' = "done"
    /\ result' = how
    /\ UNCHANGED <<trace, artifact>>

\* lines 107-118, engine_inner.allocate(..)? returned Ok
FromBuildAllocate ==
    /\ pc = "allocate"
    /\ \E ptr \in Bases : AllocateAt(ptr)
    /\ lastOp' = "allocate"
    /\ Advance("allocate")
    /\ UNCHANGED <<inputVars, frameVars, serialVars,
                   buildInputVars, engineVars, reloc_writes, signature_table,
                   signatures, eh_frame>>

\* lines 107-118, engine_inner.allocate(..)? returned Err
FromBuildAllocateErr ==
    /\ pc = "allocate"
    /\ AllocateMmapErr
    /\ lastOp' = "allocate"
    /\ Fail("Err")
    /\ UNCHANGED <<inputVars, frameVars, serialVars,
                   buildInputVars, engineVars, reloc_writes, signature_table,
                   signatures, eh_frame>>

\* lines 107-118, a panic inside CodeMemory::allocate
FromBuildAllocatePanic ==
    /\ pc = "allocate"
    /\ \E ptr \in Bases :
          \/ \E k \in 1..Len(functions) : AllocateRegisterPanicAt(ptr, k)
          \/ AllocateAssertPanicAt(ptr)
    /\ lastOp' = "allocate"
    /\ Fail("panic")
    /\ UNCHANGED <<inputVars, frameVars, serialVars,
                   buildInputVars, engineVars, reloc_writes, signature_table,
                   signatures, eh_frame>>

\* the address a relocation is written at
RelocationAddress(r) ==
    IF r.owner = "function" THEN function_result[r.index].ptr + r.offset
    ELSE CustomSections[r.index].ptr + r.offset

\* byte length of the body or section a relocation belongs to
OwnerLen(r) ==
    IF r.owner = "function" THEN functions[r.index].body_len
    ELSE CustomSectionLens[r.index]

\* the write of a relocation stays inside its owner
InOwner(r) == r.offset + RelocWidth <= OwnerLen(r)

\* a relocation link_module cannot apply as the build meant it
Malformed(r) == ~InOwner(r)

HasMalformedRelocation ==
    \E i \in 1..Len(relocations) : Malformed(relocations[i])

\* lines 120-128: link_module(..); has no value and no `?`.  It patches every
\* relocation in place; the write is recorded with the protection of its
\* page at that moment.  link_module does not look at the length of the
\* owner: a malformed relocation is written like any other.
FromBuildLink ==
    /\ pc = "link_module"
    /\ reloc_writes' = reloc_writes \o
          [i \in 1..Len(relocations) |->
              LET a == RelocationAddress(relocations[i])
                  pg == ((a - mmap.ptr) \div PageSize) + 1
              IN  [addr |-> a,
                   writable |-> "W" \in prot[pg],
                   executable |-> "X" \in prot[pg],
                   after_publish |->
                       \E j \in 1..Len(trace) :
                           trace[j] = "publish_compiled_code",
                   below_boundary |->
                       a - mmap.ptr < start_of_nonexecutable_pages,
                   in_owner |-> InOwner(relocations[i])]]
    /\ Advance("link_module")
    /\ UNCHANGED <<inputVars, frameVars, serialVars,
                   cmVars, buildInputVars, engineVars, signature_table,
                   signatures, eh_frame>>

\* lines 120-128: link_module panics on a malformed relocation (an index or
\* a slice out of range)
FromBuildLinkPanic ==
    /\ pc = "link_module"
    /\ HasMalformedRelocation
    /\ Fail("panic")
    /\ UNCHANGED <<inputVars, frameVars, serialVars,
                   cmVars, buildInputVars, engineVars, reloc_writes,
                   signature_table, signatures, eh_frame>>

\* lines 131-138: signature_registry.register(sig) for every signature
FromBuildSignatures ==
    /\ pc = "signatures"
    /\ signature_table' =
          signature_table \cup
              {module_signatures[i] : i \in 1..Len(module_signatures)}
    /\ signatures' = module_signatures
    /\ Advance("signatures")
    /\ UNCHANGED <<inputVars, frameVars, serialVars,
                   cmVars, buildInputVars, engineVars, reloc_writes, eh_frame>>

\* lines 140-149
FromBuildEhFrame ==
    /\ pc = "eh_frame"
    /\ eh_frame' =
          IF debug = 0 THEN "None"
          ELSE [ptr |-> CustomSections[debug].ptr,
                len |-> CustomSectionLens[debug]]
    /\ Advance("eh_frame")
    /\ UNCHANGED <<inputVars, frameVars, serialVars,
                   cmVars, buildInputVars, engineVars, reloc_writes,
                   signature_table, signatures>>

\* line 152: engine_inner.publish_compiled_code() returned
FromBuildPublish ==
    /\ pc = "publish_compiled_code"
    /\ PublishReturn
    /\ lastOp' = "publish"
    /\ Advance("publish_compiled_code")
    /\ UNCHANGED <<inputVars, frameVars, serialVars, registry, function_result,
                   executable_section_result, data_section_result, total_len,
                   buildInputVars, engineVars, reloc_writes, signature_table,
                   signatures,
                   eh_frame>>

\* line 152: CodeMemory::publish panicked
FromBuildPublishPanic ==
    /\ pc = "publish_compiled_code"
    /\ PublishPanic
    /\ lastOp' = "publish"
    /\ Fail("panic")
    /\ UNCHANGED <<inputVars, frameVars, serialVars, registry, function_result,
                   executable_section_result, data_section_result, total_len,
                   buildInputVars, engineVars, reloc_writes, signature_table,
                   signatures,
                   eh_frame>>

\* line 154: engine_inner.publish_eh_frame(eh_frame)? returned Ok
FromBuildPublishEhFrame ==
    /\ pc = "publish_eh_frame"
    /\ Advance("publish_eh_frame")
    /\ UNCHANGED <<inputVars, frameVars, serialVars,
                   cmVars, buildInputVars, engineVars, reloc_writes,
                   signature_table, signatures, eh_frame>>

\* line 154: engine_inner.publish_eh_frame(eh_frame)? returned Err
FromBuildPublishEhFrameErr ==
    /\ pc = "publish_eh_frame"
    /\ Fail("Err")
    /\ UNCHANGED <<inputVars, frameVars, serialVars,
                   cmVars, buildInputVars, engineVars, reloc_writes,
                   signature_table, signatures, eh_frame>>

\* lines 156-183: Ok(Self { .. }); try_from accepts the bytes of a
\* serialized module (an artifact reference of another origin may be refused)
FromBuildOk ==
    /\ pc = "try_from"
    /\ (serialized = <<>> \/ Decodable(serialized))
    /\ pc' = "done"
    /\ trace' = Append(trace, "try_from")
    /\ result' = "Ok"
    /\ artifact' =
          [present |-> TRUE,
           finished_functions |->
               [i \in 1..Len(function_result) |-> function_result[i].ptr],
           finished_function_lengths |->
               [i \in 1..Len(function_result) |-> function_result[i].len],
           signatures |-> signatures]
    /\ frame_info_registration' = NoRegistration
    /\ UNCHANGED <<inputVars, threadVars, serialVars, cmVars, buildInputVars,
                   engineVars,
                   reloc_writes, signature_table, signatures, eh_frame>>

\* lines 174-175: UniversalArtifactBuild::try_from(artifact) failed
FromBuildTryFromErr ==
    /\ pc = "try_from"
    /\ (serialized = <<>> \/ ~Decodable(serialized))
    /\ Fail("Err")
    /\ UNCHANGED <<inputVars, frameVars, serialVars,
                   cmVars, buildInputVars, engineVars, reloc_writes,
                   signature_table, signatures, eh_frame>>

NextBuild ==
    \/ FromBuildAllocate
    \/ FromBuildAllocateErr
    \/ FromBuildAllocatePanic
    \/ FromBuildLink
    \/ FromBuildLinkPanic
    \/ FromBuildSignatures
    \/ FromBuildEhFrame
    \/ FromBuildPublish
    \/ FromBuildPublishPanic
    \/ FromBuildPublishEhFrame
    \/ FromBuildPublishEhFrameErr
    \/ FromBuildOk
    \/ FromBuildTryFromErr

InitFromBuild == InitInputs /\ InitCodeMemory /\ InitBuild

SpecBuild == InitFromBuild /\ [][NextBuild]_vars

(***************************************************************************)
(* UniversalArtifact::register_frame_info, called by several threads on    *)
(* one artifact.  The builds that fail hand out no artifact and are left   *)
(* out of this specification.                                              *)
(***************************************************************************)
RECURSIVE MaxEnd(_, _)
MaxEnd(a, n) ==
    IF n = 0 THEN 0
    ELSE LET end == a.finished_functions[n] + a.finished_function_lengths[n]
             rest == MaxEnd(a, n - 1)
         IN  IF end > rest THEN end ELSE rest

\* the underlying register_frame_info(module, extents, frame_infos): no
\* registration for a module without function bytes, otherwise one that is
\* keyed by the end of its last function
register_frame_info(a) ==
    LET max == MaxEnd(a, Len(a.finished_functions))
    IN  IF Len(a.finished_functions) = 0 THEN NoRegistration
        ELSE [some |-> TRUE, key |-> max]

\* a lock that is never held
lock_available_NoMutex(holder) == TRUE

\* self.frame_info_registration.lock() goes on when no thread holds the Mutex
lock_available(holder) == holder = 0

\* line 229: the thread takes the Mutex
RegisterFrameInfoLock(t) ==
    /\ artifact.present
    /\ tpc[t] = "idle"
    /\ calls[t] < MaxCalls
    /\ lock_available(frame_lock)
    /\ frame_lock' = t
    /\ tpc' = [tpc EXCEPT ![t] = "locked"]
    /\ UNCHANGED <<inputVars, cmVars, buildInputVars, engineVars, buildVars,
                   serialVars,
                   frame_info_registration, calls, seen, computations,
                   global_frame_info>>

\* lines 231-233: the slot is filled, the call returns and drops the guard
RegisterFrameInfoReturnEarly(t) ==
    /\ tpc[t] = "locked"
    /\ frame_info_registration.some
    /\ tpc' = [tpc EXCEPT ![t] = "idle"]
    /\ calls' = [calls EXCEPT ![t] = @ + 1]
    /\ seen' = [seen EXCEPT ![t] = frame_info_registration]
    /\ frame_lock' = 0
    /\ UNCHANGED <<inputVars, cmVars, buildInputVars, engineVars, buildVars,
                   serialVars,
                   frame_info_registration, computations, global_frame_info>>

\* line 231: the slot is empty, the call goes on
RegisterFrameInfoCheck(t) ==
    /\ tpc[t] = "locked"
    /\ ~frame_info_registration.some
    /\ tpc' = [tpc EXCEPT ![t] = "register"]
    /\ UNCHANGED <<inputVars, cmVars, buildInputVars, engineVars, buildVars,
                   serialVars,
                   frame_info_registration, frame_lock, calls, seen,
                   computations, global_frame_info>>

\* lines 235-250: the underlying register_frame_info runs, its value is
\* stored in the slot, the call returns and drops the guard
RegisterFrameInfoStore(t) ==
    LET r == register_frame_info(artifact)
    IN  /\ tpc[t] = "register"
        /\ computations' = computations + 1
        /\ global_frame_info' =
               IF r.some THEN Append(global_frame_info, r)
               ELSE global_frame_info
        /\ frame_info_registration' = r
        /\ tpc' = [tpc EXCEPT ![t] = "idle"]
        /\ calls' = [calls EXCEPT ![t] = @ + 1]
        /\ seen' = [seen EXCEPT ![t] = r]
        /\ frame_lock' = 0
        /\ UNCHANGED <<inputVars, cmVars, buildInputVars, engineVars,
                       buildVars,
                       serialVars>>

\* a build of functions only, without relocations, debug section or
\* signatures
InitFrameInfo ==
    /\ functions \in SeqsUpTo(FunctionBody, MaxFuncs)
    /\ executable_sections = <<>>
    /\ data_sections = <<>>
    /\ InitCodeMemory
    /\ relocations = <<>>
    /\ debug = 0
    /\ module_signatures = <<>>
    /\ pc = "allocate"
    /\ trace = <<>>
    /\ reloc_writes = <<>>
    /\ signature_table = {}
    /\ signatures = <<>>
    /\ eh_frame = "None"
    /\ result = "none"
    /\ artifact = NoArtifact
    /\ InitUnused

NextFrameInfo ==
    \/ FromBuildAllocate
    \/ FromBuildLink
    \/ FromBuildSignatures
    \/ FromBuildEhFrame
    \/ FromBuildPublish
    \/ FromBuildPublishEhFrame
    \/ FromBuildOk
    \/ \E t \in Threads :
          \/ RegisterFrameInfoLock(t)
          \/ RegisterFrameInfoReturnEarly(t)
          \/ RegisterFrameInfoCheck(t)
          \/ RegisterFrameInfoStore(t)

SpecFrameInfo == InitFrameInfo /\ [][NextFrameInfo]_vars

(***************************************************************************)
(* serialize and deserialize: an artifact is built, serialized, and the    *)
(* bytes are deserialized on the same engine.                              *)
(***************************************************************************)
\* what an artifact exposes of its functions, and the unwind entries of its
\* build
Summary ==
    [count |-> Len(artifact.finished_functions),
     lengths |-> artifact.finished_function_lengths,
     unwind_entries |-> Len(registry)]

\* lines 222-224: self.artifact.serialize() returned Ok(bytes)
Serialize ==
    /\ artifact.present
    /\ phase = "build"
    /\ serialized' = Encode(functions, executable_sections, data_sections)
    /\ original' = Summary
    /\ phase' = "serialized"
    /\ UNCHANGED <<inputVars, cmVars, buildInputVars, engineVars, buildVars,
                   frameVars>>

\* lines 222-224: self.artifact.serialize() returned Err
SerializeErr ==
    /\ artifact.present
    /\ phase = "build"
    /\ phase' = "serialize_failed"
    /\ UNCHANGED <<inputVars, cmVars, buildInputVars, engineVars, buildVars,
                   frameVars,
                   serialized, original>>

\* lines 95-97: UniversalArtifactBuildRef::try_from(bytes)? returned Ok and
\* from_build starts on the module the bytes hold; the relocations, the
\* debug descriptor and the signatures of the module are carried as they are
Deserialize ==
    /\ phase = "serialized"
    /\ Decodable(serialized)
    /\ functions' = Decode(serialized).functions
    /\ executable_sections' = Decode(serialized).executable_sections
    /\ data_sections' = Decode(serialized).data_sections
    /\ phase' = "deserialize"
    /\ pc' = "allocate"
    /\ trace' = <<>>
    /\ reloc_writes' = <<>>
    /\ signatures' = <<>>
    /\ eh_frame' = "None"
    /\ result' = "none"
    /\ artifact' = NoArtifact
    /\ UNCHANGED <<cmVars, buildInputVars, engineVars, signature_table,
                   frameVars,
                   serialized, original>>

\* bytes that lost their end in storage
Truncated(b) == SubSeq(b, 1, Len(b) - 1)

\* line 96: UniversalArtifactBuildRef::try_from(bytes)? returned Err, the
\* bytes handed in not being a serialized module; from_build is not called
DeserializeErr ==
    /\ phase = "serialized"
    /\ ~Decodable(Truncated(serialized))
    /\ serialized' = Truncated(serialized)
    /\ phase' = "rejected"
    /\ pc' = "done"
    /\ trace' = <<>>
    /\ result' = "Err"
    /\ artifact' = NoArtifact
    /\ UNCHANGED <<inputVars, cmVars, buildInputVars, engineVars, frameVars,
                   original,
                   reloc_writes, signature_table, signatures, eh_frame>>

InitRoundTrip ==
    /\ InitInputs
    /\ InitCodeMemory
    /\ relocations = <<>>
    /\ debug = 0
    /\ module_signatures = <<>>
    /\ pc = "allocate"
    /\ trace = <<>>
    /\ reloc_writes = <<>>
    /\ signature_table = {}
    /\ signatures = <<>>
    /\ eh_frame = "None"
    /\ result = "none"
    /\ artifact = NoArtifact
    /\ InitUnused

NextRoundTrip ==
    \/ FromBuildAllocate
    \/ FromBuildAllocateErr
    \/ FromBuildAllocatePanic
    \/ FromBuildLink
    \/ FromBuildSignatures
    \/ FromBuildEhFrame
    \/ FromBuildPublish
    \/ FromBuildPublishPanic
    \/ FromBuildPublishEhFrame
    \/ FromBuildPublishEhFrameErr
    \/ FromBuildOk
    \/ FromBuildTryFromErr
    \/ Serialize
    \/ SerializeErr
    \/ Deserialize
    \/ DeserializeErr

SpecRoundTrip == InitRoundTrip /\ [][NextRoundTrip]_vars

(***************************************************************************)
(* Threads that call deserialize on one engine.  A thread is idle, then    *)
(* holds the engine ("bytes": about to read the bytes), then is at a step  *)
(* of from_build, then has from_build's result ("done", "failed") or       *)
(* unwinds from a panic, and at last has left deserialize ("returned",     *)
(* "panicked").  engine_log lists the steps made on the engine with the    *)
(* thread that made each.                                                  *)
(***************************************************************************)
\* engine.inner_mut(): the engine's inner state is handed to one holder at
\* a time, as the &mut UniversalEngineInner of from_build requires
inner_mut_free(holder) == holder = 0

\* the steps of from_build that can return an error, and those that can panic
StepsThatReturnErr == {"allocate", "publish_eh_frame", "try_from"}
StepsThatPanic == {"allocate", "publish_compiled_code"}

LogStep(t) == engine_log' = Append(engine_log, [thread |-> t, step |-> dpc[t]])

EngineUnchanged ==
    UNCHANGED <<inputVars, cmVars, buildInputVars, buildVars, frameVars,
                serialVars>>

\* an entry into deserialize that goes on without holding the engine
DeserializeLock_NoGuard(t) ==
    /\ dpc[t] = "idle"
    /\ dpc' = [dpc EXCEPT ![t] = "bytes"]
    /\ UNCHANGED <<engine_lock, engine_poisoned, engine_log>>
    /\ EngineUnchanged

\* line 95: let mut inner_engine = engine.inner_mut()
DeserializeLock(t) ==
    /\ dpc[t] = "idle"
    /\ inner_mut_free(engine_lock)
    /\ engine_lock' = t
    /\ dpc' = [dpc EXCEPT ![t] = "bytes"]
    /\ UNCHANGED <<engine_poisoned, engine_log>>
    /\ EngineUnchanged

\* line 95: inner_mut() on an engine whose holder panicked may panic too
DeserializeLockPoisoned(t) ==
    /\ dpc[t] = "idle"
    /\ inner_mut_free(engine_lock)
    /\ engine_poisoned
    /\ dpc' = [dpc EXCEPT ![t] = "panicked"]
    /\ UNCHANGED <<engine_lock, engine_poisoned, engine_log>>
    /\ EngineUnchanged

\* line 96: UniversalArtifactBuildRef::try_from(bytes)? returned Ok
DeserializeBytesOk(t) ==
    /\ dpc[t] = "bytes"
    /\ dpc' = [dpc EXCEPT ![t] = "allocate"]
    /\ UNCHANGED <<engine_lock, engine_poisoned, engine_log>>
    /\ EngineUnchanged

\* line 96: UniversalArtifactBuildRef::try_from(bytes)? returned Err
DeserializeBytesErr(t) ==
    /\ dpc[t] = "bytes"
    /\ dpc' = [dpc EXCEPT ![t] = "failed"]
    /\ UNCHANGED <<engine_lock, engine_poisoned, engine_log>>
    /\ EngineUnchanged

\* line 97, from_build: the statement the thread is at completes
EngineBuildStep(t) ==
    /\ dpc[t] \in {FromBuildSteps[i] : i \in 1..Len(FromBuildSteps)}
    /\ dpc' = [dpc EXCEPT ![t] = NextStep(dpc[t])]
    /\ LogStep(t)
    /\ UNCHANGED <<engine_lock, engine_poisoned>>
    /\ EngineUnchanged

\* line 97, from_build: the statement the thread is at returns Err
EngineBuildErr(t) ==
    /\ dpc[t] \in StepsThatReturnErr
    /\ dpc' = [dpc EXCEPT ![t] = "failed"]
    /\ LogStep(t)
    /\ UNCHANGED <<engine_lock, engine_poisoned>>
    /\ EngineUnchanged

\* line 97, from_build: the statement the thread is at panics
EngineBuildPanic(t) ==
    /\ dpc[t] \in StepsThatPanic
    /\ dpc' = [dpc EXCEPT ![t] = "unwinding"]
    /\ LogStep(t)
    /\ UNCHANGED <<engine_lock, engine_poisoned>>
    /\ EngineUnchanged

\* line 98: deserialize returns and inner_engine goes out of scope
DeserializeReturn(t) ==
    /\ dpc[t] \in {"done", "failed"}
    /\ dpc' = [dpc EXCEPT ![t] = "returned"]
    /\ engine_lock' = IF engine_lock = t THEN 0 ELSE engine_lock
    /\ UNCHANGED <<engine_poisoned, engine_log>>
    /\ EngineUnchanged

\* the panic unwinds through deserialize and drops inner_engine
DeserializeUnwind(t) ==
    /\ dpc[t] = "unwinding"
    /\ dpc' = [dpc EXCEPT ![t] = "panicked"]
    /\ engine_lock' = IF engine_lock = t THEN 0 ELSE engine_lock
    /\ engine_poisoned' = TRUE
    /\ UNCHANGED engine_log
    /\ EngineUnchanged

InitEngine ==
    /\ functions = <<>>
    /\ executable_sections = <<>>
    /\ data_sections = <<>>
    /\ InitCodeMemory
    /\ InitNoBuild

NextEngine ==
    \E t \in Threads :
        \/ DeserializeLock(t)
        \/ DeserializeLockPoisoned(t)
        \/ DeserializeBytesOk(t)
        \/ DeserializeBytesErr(t)
        \/ EngineBuildStep(t)
        \/ EngineBuildErr(t)
        \/ EngineBuildPanic(t)
        \/ DeserializeReturn(t)
        \/ DeserializeUnwind(t)

SpecEngine == InitEngine /\ [][NextEngine]_vars

(***************************************************************************)
(* Helpers of the properties.                                              *)
(***************************************************************************)
RECURSIVE SumSeq(_)
SumSeq(q) == IF q = <<>> THEN 0 ELSE Head(q) + SumSeq(Tail(q))

\* page (1-based) of the mapping that holds the address a
PageOf(a) == ((a - mmap.ptr) \div PageSize) + 1

Writable(i) == "W" \in prot[i]
Executable(i) == "X" \in prot[i]

AllocateReturnedOk == lastOp = "allocate" /\ ret = "Ok"
PublishReturned == lastOp = "publish" /\ ret = "Ok"

\* offset in the mapping at which the first data section starts
FirstDataOffset == data_section_result[1].ptr - mmap.ptr

(***************************************************************************)
(* C1: in every reachable state of a CodeMemory no page is writable and    *)
(* executable at once; after allocate every page is read-write and not     *)
(* executable; a publish step leaves a page as it was or moves it from     *)
(* read-write to read+execute.                                             *)
(***************************************************************************)
C1_State ==
    /\ \A i \in 1..Len(prot) : ~(Writable(i) /\ Executable(i))
    /\ (lastOp = "allocate" /\ ret # "Err"
            => \A i \in 1..Len(prot) : prot[i] = ReadWrite)

C1_PublishStep ==
    lastOp' = "publish" =>
        /\ Len(prot') = Len(prot)
        /\ \A i \in 1..Len(prot) :
              \/ prot'[i] = prot[i]
              \/ prot[i] = ReadWrite /\ prot'[i] = ReadExecute

\* C1: write-xor-execute in every state, and publish only moves pages from
\* read-write to read+execute
C1_WriteXorExecute == [](C1_State) /\ [][C1_PublishStep]_vars

C1_Witness ==
    /\ PublishReturned
    /\ \E i \in 1..Len(prot) : prot[i] = ReadExecute
    /\ \E j \in 1..Len(prot) : prot[j] = ReadWrite

(***************************************************************************)
(* C2: after publish returned on a region with a non-zero executable       *)
(* partition, every page holding an address of [0, execute_boundary) is    *)
(* executable, and every page holding a byte of a data section is          *)
(* read-write and not executable.                                          *)
(***************************************************************************)
C2_PublishedProtection ==
    (PublishReturned /\ mmap.len > 0 /\ start_of_nonexecutable_pages > 0) =>
        /\ \A i \in 1..PageOf(mmap.ptr + start_of_nonexecutable_pages - 1) :
              Executable(i)
        /\ \A d \in 1..Len(data_section_result) :
              LET v == data_section_result[d]
              IN  v.len > 0 =>
                    \A i \in PageOf(v.ptr)..PageOf(v.ptr + v.len - 1) :
                        prot[i] = ReadWrite

C2_Witness ==
    /\ PublishReturned
    /\ start_of_nonexecutable_pages % PageSize # 0
    /\ start_of_nonexecutable_pages > PageSize
    /\ data_section_result # <<>>
    /\ data_section_result[1].len > 0

(***************************************************************************)
(* C3: from_build runs allocate, link_module, signature registration,      *)
(* eh-frame resolution, publish_compiled_code, publish_eh_frame in that    *)
(* order; every relocation write lands on a page that is still writable    *)
(* and not executable, and none is made once publish has run.              *)
(***************************************************************************)
FromBuildOrder == FromBuildSteps

\* C3: the completed steps are a prefix of the order of from_build, and every
\* relocation write precedes the protection flip
C3_BuildOrder ==
    /\ Len(trace) <= Len(FromBuildOrder)
    /\ trace = SubSeq(FromBuildOrder, 1, Len(trace))
    /\ \A i \in 1..Len(reloc_writes) :
          /\ reloc_writes[i].writable
          /\ ~reloc_writes[i].executable
          /\ ~reloc_writes[i].after_publish

C3_Witness ==
    /\ pc = "done"
    /\ result = "Ok"
    /\ \E i \in 1..Len(reloc_writes) : reloc_writes[i].below_boundary
    /\ \E i \in 1..Len(prot) : prot[i] = ReadExecute

(***************************************************************************)
(* C4: an artifact is handed to the caller only after allocation, copy,    *)
(* link and publication completed, and whenever from_build ends otherwise  *)
(* it has returned an error and exposes no pointer.                        *)
(***************************************************************************)
C4_ExposedOnlyAfterSuccess ==
    /\ artifact.present => (result = "Ok" /\ trace = FromBuildOrder)
    /\ (pc = "done" /\ result # "Ok") =>
          (result = "Err" /\ ~artifact.present)

(***************************************************************************)
(* C5: when from_build fails, the memory mapped for the build has been     *)
(* released and the unwind entries registered for it have been removed.    *)
(***************************************************************************)
C5_FailedBuildReleases ==
    (pc = "done" /\ result # "Ok") =>
        (mmap.len = 0 /\ registry = <<>>)

(***************************************************************************)
(* C6: the total length allocate computes is the sum of the function       *)
(* allocation sizes each rounded up to 16, plus the executable section     *)
(* lengths each rounded up to 16, that sum rounded up to the page size,    *)
(* plus the data section lengths each rounded up to 64.                    *)
(***************************************************************************)
RoundedSizes(q, align) == [i \in 1..Len(q) |-> round_up(q[i], align)]

AllocationSizes(fs) == [i \in 1..Len(fs) |-> function_allocation_size(fs[i])]

\* C6: total_len is the two-level sum of the individually rounded lengths
C6_TotalLength ==
    lastOp = "allocate" =>
        total_len =
            round_up(SumSeq(RoundedSizes(AllocationSizes(functions),
                                         ARCH_FUNCTION_ALIGNMENT))
                     + SumSeq(RoundedSizes(executable_sections,
                                           ARCH_FUNCTION_ALIGNMENT)),
                     PageSize)
            + SumSeq(RoundedSizes(data_sections, DATA_SECTION_ALIGNMENT))

C6_Witness ==
    /\ AllocateReturnedOk
    /\ Len(functions) >= 2
    /\ \E i \in 1..Len(functions) : functions[i].unwind_info = "WindowsX64"
    /\ executable_sections # <<>>
    /\ data_sections # <<>>
    /\ total_len > PageSize
    /\ total_len % PageSize # 0

(***************************************************************************)
(* C7: after a successful allocate the execute boundary is at most the     *)
(* length of the mapping (the assertion of publish holds), and the padding *)
(* between the boundary and the first data section is less than a page.    *)
(***************************************************************************)
C7_BoundaryAndPadding ==
    AllocateReturnedOk =>
        /\ start_of_nonexecutable_pages <= mmap.len
        /\ data_section_result # <<>> =>
              /\ FirstDataOffset - start_of_nonexecutable_pages >= 0
              /\ FirstDataOffset - start_of_nonexecutable_pages < PageSize

C7_Witness ==
    /\ AllocateReturnedOk
    /\ data_section_result # <<>>
    /\ start_of_nonexecutable_pages > 0
    /\ start_of_nonexecutable_pages % PageSize = 0

(***************************************************************************)
(* C8: on a page-aligned mapping every function and executable section     *)
(* starts at a multiple of 16 and every data section at a multiple of 64,  *)
(* and no alignment assertion of allocate or copy_function fails.          *)
(***************************************************************************)
C8_Alignment ==
    (lastOp = "allocate" /\ mmap.ptr % PageSize = 0) =>
        /\ ret # "panic_assert"
        /\ \A i \in 1..Len(function_result) :
              function_result[i].ptr % ARCH_FUNCTION_ALIGNMENT = 0
        /\ \A i \in 1..Len(executable_section_result) :
              executable_section_result[i].ptr % ARCH_FUNCTION_ALIGNMENT = 0
        /\ \A i \in 1..Len(data_section_result) :
              data_section_result[i].ptr % DATA_SECTION_ALIGNMENT = 0

C8_Witness ==
    /\ AllocateReturnedOk
    /\ mmap.ptr % PageSize = 0
    /\ Len(function_result) >= 2
    /\ functions[1].unwind_info = "WindowsX64"
    /\ functions[1].body_len % 4 # 0
    /\ \E i \in 1..Len(executable_sections) : executable_sections[i] = 0
    /\ data_section_result # <<>>

C10_Step ==
    (lastOp' = "publish"
        /\ (mmap.len = 0 \/ start_of_nonexecutable_pages = 0)) =>
        /\ ret' = "Ok"
        /\ UNCHANGED <<mmap, prot, start_of_nonexecutable_pages>>
        /\ \A i \in 1..Len(prot') : prot'[i] = ReadWrite

\* C10: every publish step on an empty mapping or a zero boundary changes
\* nothing
C10_PublishNoOp == [][C10_Step]_vars

C10_Witness ==
    /\ PublishReturned
    /\ start_of_nonexecutable_pages = 0
    /\ mmap.len > 0
    /\ data_section_result # <<>>

(***************************************************************************)
(* C11: a publish called on a region that an earlier publish has made      *)
(* executable leaves the protection of every page, the mapping, the        *)
(* execute boundary and the contents as the first call left them, whether  *)
(* the second call returns or the OS rejects it.                           *)
(***************************************************************************)
AlreadyPublished ==
    /\ mmap.len > 0
    /\ start_of_nonexecutable_pages > 0
    /\ \A i \in 1..PageOf(mmap.ptr + start_of_nonexecutable_pages - 1) :
          prot[i] = ReadExecute

C11_Step ==
    (lastOp' = "publish"
        /\ (AlreadyPublished \/ (lastOp = "publish" /\ ret = "Ok"))) =>
        UNCHANGED <<mmap, prot, start_of_nonexecutable_pages, memory>>

\* C11: every publish step on a published region changes nothing
C11_PublishIdempotent == [][C11_Step]_vars

C11_Witness ==
    /\ republished
    /\ PublishReturned
    /\ AlreadyPublished
    /\ \E i \in 1..Len(prot) : prot[i] = ReadWrite

(***************************************************************************)
(* C12: when the OS rejects the protection change, publish hands its       *)
(* caller an error value, and no page has been made executable by the      *)
(* rejected call.                                                          *)
(***************************************************************************)
C12_PublishReportsError ==
    (lastOp = "publish" /\ ret # "Ok") =>
        /\ ret = "Err"
        /\ (~republished => \A i \in 1..Len(prot) : ~Executable(i))

(***************************************************************************)
(* C13: when the registration of a function's unwind information fails     *)
(* during the copy, allocate returns an error; it neither goes on nor      *)
(* panics.                                                                 *)
(***************************************************************************)
WithUnwindInfo(fs) == {i \in 1..Len(fs) : fs[i].unwind_info # "None"}

\* allocate ended with a function whose unwind information is not registered
RegistrationMissing ==
    /\ lastOp = "allocate"
    /\ ret # "panic_assert"
    /\ Len(registry) < Cardinality(WithUnwindInfo(functions))

C13_RegistrationFailureReported == RegistrationMissing => ret = "Err"

(***************************************************************************)
(* C14: an allocate whose mapping request fails returns an error and no    *)
(* views, registers no unwind entry, and leaves the mapping, its           *)
(* protection, its contents and the execute boundary as they were.         *)
(***************************************************************************)
C14_Step ==
    (lastOp' = "allocate" /\ ret' = "Err") =>
        /\ UNCHANGED <<mmap, prot, memory, start_of_nonexecutable_pages>>
        /\ function_result' = <<>>
        /\ executable_section_result' = <<>>
        /\ data_section_result' = <<>>
        /\ registry' = <<>>

\* C14: a failed mapping request changes no field of the CodeMemory
C14_FailedMappingKeepsState == [][C14_Step]_vars

C14_Witness ==
    /\ lastOp = "allocate"
    /\ ret = "Err"
    /\ AlreadyPublished
    /\ function_result = <<>>
    /\ registry = <<>>

(***************************************************************************)
(* C16: after a successful allocate the registry holds exactly one entry   *)
(* for every function that carries unwind information, of any variant,     *)
(* and none for the others; the entry's address is the start address of    *)
(* the function in the region and its length is the length of the code,    *)
(* without padding and without the appended unwind table.                  *)
(***************************************************************************)
C16_UnwindEntries ==
    AllocateReturnedOk =>
        LET U == WithUnwindInfo(functions)
            EntryOf(i) == [address |-> function_result[i].ptr,
                           length |-> functions[i].body_len]
        IN  /\ Len(registry) = Cardinality(U)
            /\ \A i \in U :
                  Cardinality({j \in 1..Len(registry) :
                                  registry[j] = EntryOf(i)}) = 1
            /\ \A j \in 1..Len(registry) :
                  \E i \in U : registry[j] = EntryOf(i)

C16_Witness ==
    /\ AllocateReturnedOk
    /\ Len(functions) = 2
    /\ functions[1].unwind_info = "SystemV"
    /\ functions[2].unwind_info = "WindowsX64"
    /\ Len(registry) = 2

(***************************************************************************)
(* C17: after allocate the bytes of every function, executable section and *)
(* data section stand at its final location, from its first to its last    *)
(* byte, in the order of the inputs, and no later copy has written over     *)
(* them; the view of a function has the length of its code.                *)
(***************************************************************************)
\* the copy k put the whole input `index` of kind `src` at offset off
CopiesInput(k, src, index, off, len) ==
    memory[k] = [off |-> off, len |-> len, src |-> src, index |-> index,
                 part |-> "body"]

\* a copy made after copy k wrote into [off, off + len)
Overwritten(k, off, len) ==
    \E j \in (k + 1)..Len(memory) :
        /\ memory[j].len > 0
        /\ memory[j].off < off + len
        /\ off < memory[j].off + memory[j].len

\* the input of length len stands at the place of the view v
StandsAt(v, src, index, len) ==
    \E k \in 1..Len(memory) :
        /\ CopiesInput(k, src, index, v.ptr - mmap.ptr, len)
        /\ ~Overwritten(k, v.ptr - mmap.ptr, len)
        /\ v.ptr - mmap.ptr + len <= mmap.len
        /\ len <= v.len

C17_RoundTrip ==
    AllocateReturnedOk =>
        /\ Len(function_result) = Len(functions)
        /\ Len(executable_section_result) = Len(executable_sections)
        /\ Len(data_section_result) = Len(data_sections)
        /\ \A i \in 1..Len(functions) :
              /\ StandsAt(function_result[i], "function", i,
                          functions[i].body_len)
              /\ function_result[i].len = functions[i].body_len
        /\ \A i \in 1..Len(executable_sections) :
              StandsAt(executable_section_result[i], "executable", i,
                       executable_sections[i])
        /\ \A i \in 1..Len(data_sections) :
              StandsAt(data_section_result[i], "data", i, data_sections[i])

C17_Witness ==
    /\ AllocateReturnedOk
    /\ Len(functions) = 2
    /\ functions[1].unwind_info = "WindowsX64"
    /\ functions[1].body_len % 4 # 0
    /\ functions[2].body_len > 0
    /\ \E i \in 1..Len(executable_sections) : executable_sections[i] > 0
    /\ \E i \in 1..Len(data_sections) : data_sections[i] > 0

(***************************************************************************)
(* C15: a relocation that reaches outside its owning body or section makes *)
(* from_build return an error at the link step, and nothing is written     *)
(* outside the owner.                                                      *)
(***************************************************************************)
\* link_module has been called
LinkReached == Len(trace) >= 1 /\ pc # "link_module"

C15_LinkErrorSurfaced ==
    (HasMalformedRelocation /\ LinkReached) =>
        /\ pc = "done"
        /\ result = "Err"
        /\ trace = <<"allocate">>
        /\ \A i \in 1..Len(reloc_writes) : reloc_writes[i].in_owner

(***************************************************************************)
(* C18: however often register_frame_info is called on an artifact, the    *)
(* underlying register_frame_info runs once, whatever it returns, and the  *)
(* slot is what a single call left.                                        *)
(***************************************************************************)
C18_ComputedOnce ==
    /\ computations <= 1
    /\ \A t \in Threads :
          calls[t] > 0 => frame_info_registration = register_frame_info(artifact)

(***************************************************************************)
(* C19: the check of the slot and the store into it are mutually           *)
(* exclusive between threads: at most one thread is between them, at most  *)
(* one registration fills the slot and none replaces it, and every call    *)
(* returned with the slot in the same state.                               *)
(***************************************************************************)
InCriticalSection == {t \in Threads : tpc[t] \in {"locked", "register"}}

C19_MutualExclusion ==
    /\ Cardinality(InCriticalSection) <= 1
    /\ \A t \in InCriticalSection : frame_lock = t
    /\ Len(global_frame_info) <= 1
    /\ frame_info_registration.some =>
          global_frame_info = <<frame_info_registration>>
    /\ \A t \in Threads : \A u \in Threads :
          (calls[t] > 0 /\ calls[u] > 0) => seen[t] = seen[u]
    /\ \A t \in Threads :
          (calls[t] > 0 /\ InCriticalSection = {}) =>
              seen[t] = frame_info_registration

C19_Witness ==
    /\ \A t \in Threads : calls[t] > 0
    /\ frame_info_registration.some
    /\ computations = 1
    /\ \E t \in Threads : tpc[t] = "locked"

(***************************************************************************)
(* C20: the bytes serialize returns for an artifact are accepted by        *)
(* deserialize, and unless the OS refuses the new build its mapping, its   *)
(* unwind registration or its protection change, deserialize returns an    *)
(* artifact with as many function pointers, the same function lengths and  *)
(* as many unwind entries as the serialized one.                           *)
(***************************************************************************)
RoundTripEnded == phase = "deserialize" /\ pc = "done"

\* the step of from_build that did not complete
FailedStep == FromBuildOrder[Len(trace) + 1]

\* the build ended in a step that asks the OS for something
OsRefused ==
    /\ result # "Ok"
    /\ FailedStep \in {"allocate", "publish_compiled_code", "publish_eh_frame"}

FunctionStart(i) == function_result[i].ptr - mmap.ptr

SumOfSlotsBefore(i) ==
    SumSeq(RoundedSizes(AllocationSizes(SubSeq(functions, 1, i - 1)),
                        ARCH_FUNCTION_ALIGNMENT))

StartsAreSums ==
    /\ Len(function_result) = Len(functions)
    /\ \A i \in 1..Len(functions) : FunctionStart(i) = SumOfSlotsBefore(i)

C21_StrictlyIncreasing ==
    AllocateReturnedOk =>
        /\ StartsAreSums
        /\ \A i, j \in 1..Len(function_result) :
              i < j => FunctionStart(i) < FunctionStart(j)

C21_FunctionOffsets ==
    AllocateReturnedOk =>
        /\ StartsAreSums
        /\ \A i, j \in 1..Len(function_result) :
              i < j =>
                /\ FunctionStart(i) <= FunctionStart(j)
                /\ (\E k \in i..(j - 1) :
                        function_allocation_size(functions[k]) > 0)
                     => FunctionStart(i) < FunctionStart(j)

\* the build of the scenario: bodies of 10, 17 and 40 bytes without unwind
\* info and one executable section of 5 bytes
C21_Witness ==
    /\ AllocateReturnedOk
    /\ [i \in 1..Len(functions) |-> functions[i].body_len] = <<10, 17, 40>>
    /\ \A i \in 1..Len(functions) : functions[i].unwind_info = "None"
    /\ executable_sections = <<5>>
    /\ data_sections = <<>>
    /\ [i \in 1..Len(function_result) |-> FunctionStart(i)] = <<0, 16, 48>>
    /\ executable_section_result[1].ptr - mmap.ptr = 96
    /\ mmap.len = PageSize

(***************************************************************************)
(* C22: the allocation size of a function is its code length, plus, if and *)
(* only if its unwind info is the WindowsX64 variant, the padding          *)
(* round_up(code length, 4) - code length and the length of the unwind     *)
(* table; allocate advances by that size rounded up to 16.                 *)
(***************************************************************************)
InlinePadding(func) == round_up(func.body_len, 4) - func.body_len

SizingRule(func) ==
    func.body_len
    + (IF func.unwind_info = "WindowsX64"
       THEN InlinePadding(func) + info_len(func)
       ELSE 0)

C22_AllocationSize ==
    /\ \A i \in 1..Len(functions) :
          function_allocation_size(functions[i]) = SizingRule(functions[i])
    /\ AllocateReturnedOk =>
          \A i \in 1..(Len(function_result) - 1) :
              FunctionStart(i + 1) - FunctionStart(i)
                = round_up(SizingRule(functions[i]), ARCH_FUNCTION_ALIGNMENT)

C22_Witness ==
    /\ AllocateReturnedOk
    /\ Len(function_result) = 2
    /\ functions[1].unwind_info = "WindowsX64"
    /\ InlinePadding(functions[1]) > 0
    /\ functions[2].unwind_info = "SystemV"
    /\ function_allocation_size(functions[2]) = functions[2].body_len

(***************************************************************************)
(* C23: for a function with WindowsX64 unwind info copy_function writes    *)
(* the unwind table at round_up(code length, 4) from the start of the      *)
(* function, behind the code bytes; the slot reserved for a function is    *)
(* round_up(function_allocation_size, 16) bytes, it lies inside the        *)
(* mapping, and every byte copy_function writes for the function lies      *)
(* inside that slot, so none lands in the slot of a neighbour.             *)
(***************************************************************************)
\* where the slot of function i ends: at the next function, or at the first
\* executable section, or at the end of the executable bytes
SlotEnd(i) ==
    IF i < Len(function_result) THEN FunctionStart(i + 1)
    ELSE IF executable_section_result # <<>>
    THEN executable_section_result[1].ptr - mmap.ptr
    ELSE start_of_nonexecutable_pages

WritesOf(i) ==
    {k \in 1..Len(memory) :
        memory[k].src = "function" /\ memory[k].index = i}

C23_UnwindTableInSlot ==
    function_result # <<>> =>
        \A i \in 1..Len(function_result) :
            /\ SlotEnd(i) - FunctionStart(i)
                 = round_up(function_allocation_size(functions[i]),
                            ARCH_FUNCTION_ALIGNMENT)
            /\ SlotEnd(i) <= mmap.len
            /\ \A k \in WritesOf(i) :
                  /\ FunctionStart(i) <= memory[k].off
                  /\ memory[k].off + memory[k].len <= SlotEnd(i)
            /\ functions[i].unwind_info = "WindowsX64" =>
                  \E u \in WritesOf(i) :
                      /\ memory[u].part = "unwind"
                      /\ memory[u].off
                           = FunctionStart(i)
                             + round_up(functions[i].body_len, 4)
                      /\ memory[u].len = info_len(functions[i])
                      /\ \A b \in WritesOf(i) \ {u} :
                            memory[b].off + memory[b].len <= memory[u].off

\* an unwind table that crosses a page boundary and ends short of the
\* function after it
C23_Witness ==
    /\ AllocateReturnedOk
    /\ Len(function_result) = 2
    /\ functions[1].unwind_info = "WindowsX64"
    /\ functions[1].body_len % 4 # 0
    /\ \E u \in WritesOf(1) :
          /\ memory[u].part = "unwind"
          /\ memory[u].off + memory[u].len > PageSize
          /\ memory[u].off + memory[u].len <= FunctionStart(2)

(***************************************************************************)
(* C24: the views one allocate call returns (function views, executable    *)
(* section views, data section views) are pairwise non-overlapping byte    *)
(* ranges inside the mapping, and every function view and every executable *)
(* section view ends at or below the execute boundary.                     *)
(***************************************************************************)
ExecutableCodeViews == function_result \o executable_section_result

AllViews == ExecutableCodeViews \o data_section_result

\* the byte ranges [ptr, ptr + len) of two views share no byte
Apart(v, w) == v.ptr + v.len <= w.ptr \/ w.ptr + w.len <= v.ptr

InsideMapping(v) ==
    /\ mmap.ptr <= v.ptr
    /\ v.ptr + v.len <= mmap.ptr + mmap.len

C24_ViewsDisjoint ==
    AllocateReturnedOk =>
        /\ \A i, j \in 1..Len(AllViews) :
              i # j => \/ Apart(AllViews[i], AllViews[j])
                       \/ AllViews[i].len = 0
                       \/ AllViews[j].len = 0
        /\ \A i \in 1..Len(AllViews) : InsideMapping(AllViews[i])
        /\ \A i \in 1..Len(ExecutableCodeViews) :
              /\ mmap.ptr <= ExecutableCodeViews[i].ptr
              /\ ExecutableCodeViews[i].ptr + ExecutableCodeViews[i].len
                   <= mmap.ptr + start_of_nonexecutable_pages

C24_Witness ==
    /\ AllocateReturnedOk
    /\ Len(function_result) = 3
    /\ \A i \in 1..3 : function_result[i].len > 0
    /\ \E i \in 1..3 : functions[i].unwind_info = "WindowsX64"
    /\ Len(executable_section_result) = 1
    /\ Len(data_section_result) = 1
    /\ data_section_result[1].ptr
         >= mmap.ptr + start_of_nonexecutable_pages

(***************************************************************************)
(* C25: whenever deserialize ends without an artifact it has returned a    *)
(* DeserializeError: the error of try_from on the bytes, or the            *)
(* CompileError of from_build wrapped as DeserializeError::Compiler; and   *)
(* it hands out no artifact then.                                          *)
(***************************************************************************)
DeserializeEnded == phase \in {"deserialize", "rejected"} /\ pc = "done"

C25_FailureReturnedAsError ==
    (DeserializeEnded /\ result # "Ok") =>
        (result = "Err" /\ ~artifact.present)

(***************************************************************************)
(* C26: threads that call deserialize on one engine do not interleave      *)
(* their builds: a thread holds the engine from before its allocate until  *)
(* its from_build has returned, at most one thread is inside deserialize   *)
(* past the lock at any time, and the steps made on the engine (allocate,  *)
(* link, signature registration, publish) by one build are not separated   *)
(* by a step of another build.                                             *)
(***************************************************************************)
HoldsEngine(t) == dpc[t] \notin {"idle", "returned", "panicked"}

C26_BuildsDoNotInterleave ==
    /\ \A t \in Threads : HoldsEngine(t) => engine_lock = t
    /\ \A t, u \in Threads : (HoldsEngine(t) /\ HoldsEngine(u)) => t = u
    /\ \A i, j, k \in 1..Len(engine_log) :
          (i < j /\ j < k /\ engine_log[i].thread = engine_log[k].thread)
            => engine_log[j].thread = engine_log[i].thread

\* two builds ran to their end on the engine, one after the other
C26_Witness ==
    /\ \A t \in {1, 2} : dpc[t] = "returned"
    /\ \A t \in {1, 2} :
          Len(SelectSeq(engine_log, LAMBDA e : e.thread = t))
            = Len(FromBuildSteps)
    /\ engine_log[1].thread # engine_log[Len(engine_log)].thread

====
